---------------------------- MODULE Spec2Model ----------------------------
(***************************************************************************)
(* A model of habitat_sim/utils/viz_utils.py: the encoder selection        *)
(* (get_fast_video_writer), the observation converters (depth_to_rgb,      *)
(* semantic_to_rgb, observation_to_image) and the frame loop of make_video *)
(* with its encoder handle and the display call.                           *)
(*                                                                         *)
(* Representation.                                                         *)
(*  - A raw buffer (numpy array) is a sequence of rows, each a sequence of *)
(*    integer samples: buf[y][x], 1-based, so pixel (x, y) of the code     *)
(*    (0-based) is buf[y + 1][x + 1].  One sample stands for the channel   *)
(*    vector of the pixel.                                                 *)
(*  - A PIL image is a record [w, h, px] with px a buffer of 8-bit         *)
(*    samples.  The pixel of a semantic image is its palette index (the    *)
(*    colour table d3_40_colors_rgb lives outside this file).              *)
(*  - Depths and depth clips are integers of one unit; the normalisation   *)
(*    d / clip * 255 is computed exactly, as a fraction.                   *)
(*  - A file name is a sequence of one-character strings.                  *)
(***************************************************************************)
EXTENDS Integers, Sequences, FiniteSets, TLC

VARIABLES
    pc,            \* position of the running call
    args,          \* the arguments of the call
    sys_modules,   \* TRUE iff "google.colab" is in sys.modules
    environ,       \* os.environ, a record of the variables that are set
    writer,        \* the encoder handle (imageio writer); NoneVal before it is opened
    border_frames, \* make_video: the precomputed border images
    ob_ix,         \* make_video: index of the observation being processed
    ov_ix,         \* make_video: index of the overlay being processed
    image_frame,   \* make_video: the frame being composed
    calls,         \* the observation_to_image calls made so far: <<frame, overlay>>, overlay 0 = primary
    displayed,     \* the display_video calls made so far: the viewers used
    result         \* the value returned by the call (pure-function calls)

vars == <<pc, args, sys_modules, environ, writer, border_frames, ob_ix, ov_ix,
          image_frame, calls, displayed, result>>

-----------------------------------------------------------------------------
(* Bounds of the model *)

\* longest observation list given to make_video
MaxObs == 2
\* largest depth sample and largest depth clip drawn for the converters
MaxDepth == 12
\* width and height of the sensor buffers given to make_video
SmallW == 6
SmallH == 5

-----------------------------------------------------------------------------
(* Python values *)

\* Python's None
NoneVal == [none |-> TRUE]

IsNone(v) == "none" \in DOMAIN v

\* a value of an Optional argument that is not None
Some(v) == [some |-> v]

\* the characters of ".mp4"
DotMp4 == <<".", "m", "p", "4">>

\* the value lines 8 and 39 name
FfmpegExe == "/usr/bin/ffmpeg"

\* str.endswith
EndsWith(s, suffix) ==
    /\ Len(s) >= Len(suffix)
    /\ SubSeq(s, Len(s) - Len(suffix) + 1, Len(s)) = suffix

\* str.rfind of one character: the last 1-based index of ch in s, 0 if absent
RFind(s, ch) ==
    LET hits == {i \in 1..Len(s) : s[i] = ch}
    IN  IF hits = {} THEN 0 ELSE CHOOSE i \in hits : \A j \in hits : j <= i

\* os.path.splitext(p)[-1]: the text from the last dot of the last path
\* component, unless only dots precede it in that component
splitext_ext(p) ==
    LET sepIndex == RFind(p, "/")
        dotIndex == RFind(p, ".")
    IN  IF dotIndex > sepIndex
           /\ \E k \in (sepIndex + 1)..(dotIndex - 1) : p[k] # "."
        THEN SubSeq(p, dotIndex, Len(p))
        ELSE <<>>

-----------------------------------------------------------------------------
(* numpy and PIL operations *)

\* np.clip on one sample
np_clip(v, lo, hi) == IF v < lo THEN lo ELSE IF v > hi THEN hi ELSE v

\* the integer part of num / den (den > 0), as a float-to-integer cast takes it
Truncate(num, den) ==
    IF num >= 0 THEN num \div den ELSE -((-num) \div den)

\* the cast to np.uint8 of an integer sample
np_uint8(v) == v % 256

\* Image.fromarray: width and height from the array's shape
Image_fromarray(buf) ==
    [w |-> IF Len(buf) = 0 THEN 0 ELSE Len(buf[1]), h |-> Len(buf), px |-> buf]

\* np.array(image)
np_array(img) == img.px

\* Image.resize(dims): resampling to dims = <<width, height>>, each target
\* pixel taking the source sample under its centre
Image_resize(img, dims) ==
    [w |-> dims[1], h |-> dims[2],
     px |-> [y \in 1..dims[2] |-> [x \in 1..dims[1] |->
               img.px[((2 * y - 1) * img.h) \div (2 * dims[2]) + 1]
                     [((2 * x - 1) * img.w) \div (2 * dims[1]) + 1]]]]

\* Image.paste(src, box = <<x0, y0>>): src copied with its top-left corner at
\* (x0, y0), clipped to the image
Image_paste(img, src, box) ==
    [img EXCEPT !.px =
        [y \in 1..img.h |-> [x \in 1..img.w |->
            IF /\ box[1] <= x - 1 /\ x - 1 < box[1] + src.w
               /\ box[2] <= y - 1 /\ y - 1 < box[2] + src.h
            THEN src.px[y - box[2]][x - box[1]]
            ELSE img.px[y][x]]]]

-----------------------------------------------------------------------------
(* The converters, lines 202-259 *)

\* depth_clip: Optional[float] = 10.0 (make_video, observation_to_image) and
\* clip_max: float = 10.0 (depth_to_rgb)
DefaultDepthClip == 10

\* the palette size of semantic_to_rgb
PaletteSize == 40

\* depth_to_rgb_sample without the clip
depth_to_rgb_sample_noclip(d, clip_max) ==
    np_uint8(Truncate(d * 255, clip_max))

\* depth_to_rgb_sample rounding to the nearest integer before the cast
depth_to_rgb_sample_round(d, clip_max) ==
    np_uint8((2 * np_clip(d, 0, clip_max) * 255 + clip_max) \div (2 * clip_max))

\* depth_to_rgb on one sample: np.clip(d, 0, clip_max); /= clip_max;
\* (d * 255).astype(np.uint8)
depth_to_rgb_sample(d, clip_max) ==
    np_uint8(Truncate(np_clip(d, 0, clip_max) * 255, clip_max))

\* depth_to_rgb
depth_to_rgb(depth_image, clip_max) ==
    [y \in 1..Len(depth_image) |-> [x \in 1..Len(depth_image[y]) |->
        depth_to_rgb_sample(depth_image[y][x], clip_max)]]

\* semantic_to_rgb: an indexed image of the ids modulo 40, cast to uint8
semantic_to_rgb(semantic_image) ==
    Image_fromarray(
        [y \in 1..Len(semantic_image) |-> [x \in 1..Len(semantic_image[y]) |->
            np_uint8(semantic_image[y][x] % PaletteSize)]])

\* observation_to_image without the "semantic" branch
observation_to_image_nosemantic(observation_image, observation_type, depth_clip) ==
    IF observation_type = "color"
    THEN Image_fromarray(
            [y \in 1..Len(observation_image) |->
                [x \in 1..Len(observation_image[y]) |->
                    np_uint8(observation_image[y][x])]])
    ELSE IF observation_type = "depth"
    THEN Image_fromarray(depth_to_rgb(observation_image, depth_clip))
    ELSE NoneVal

\* observation_to_image: a PIL image, or None for an unsupported type
observation_to_image(observation_image, observation_type, depth_clip) ==
    IF observation_type = "color"
    THEN Image_fromarray(
            [y \in 1..Len(observation_image) |->
                [x \in 1..Len(observation_image[y]) |->
                    np_uint8(observation_image[y][x])]])
    ELSE IF observation_type = "depth"
    THEN Image_fromarray(depth_to_rgb(observation_image, depth_clip))
    ELSE IF observation_type = "semantic"
    THEN semantic_to_rgb(observation_image)
    ELSE NoneVal

-----------------------------------------------------------------------------
(* The encoder selection, lines 35-55 *)

\* fps: int = 60
DefaultFps == 60

\* the condition of lines 36-40 without the environment variable
UseHardwareEncoding_noenv(video_file, colab, env) ==
    /\ colab
    /\ splitext_ext(video_file) = DotMp4

\* the condition of lines 36-40
UseHardwareEncoding(video_file, colab, env) ==
    /\ colab
    /\ splitext_ext(video_file) = DotMp4
    /\ "IMAGEIO_FFMPEG_EXE" \in DOMAIN env
    /\ env.IMAGEIO_FFMPEG_EXE = FfmpegExe

\* get_fast_video_writer: an open imageio writer
get_fast_video_writer(video_file, fps, colab, env) ==
    IF UseHardwareEncoding(video_file, colab, env)
    THEN [state |-> "open", file |-> video_file, fps |-> fps,
          codec |-> "h264_nvenc", bitrate |-> "1000k",
          output_params |-> <<"-minrate", "500k", "-maxrate", "5000k">>,
          frames |-> <<>>, closes |-> 0]
    ELSE [state |-> "open", file |-> video_file, fps |-> fps,
          codec |-> "default", bitrate |-> "default",
          output_params |-> <<>>,
          frames |-> <<>>, closes |-> 0]

\* append_data putting the frame first instead of last
append_data_front(w, frame) == [w EXCEPT !.frames = <<frame>> \o @]

\* writer.append_data
append_data(w, frame) == [w EXCEPT !.frames = Append(@, frame)]

\* writer.close
close(w) == [w EXCEPT !.state = "closed", !.closes = @ + 1]

\* is_notebook and the branches of display_video, lines 20-32 and 81-102:
\* the viewer that shows the video
display_video(notebook, platform) ==
    IF notebook THEN "html5"
    ELSE IF platform = "win32" THEN "startfile"
    ELSE IF platform = "darwin" THEN "open"
    ELSE "xdg-open"

-----------------------------------------------------------------------------
(* make_video, lines 105-199 *)

\* np.ones(3) * 150, the default border colour
DefaultBorderColor == 150

\* lines 138-139: the file name with ".mp4" appended unless it ends with it
NormalizedVideoFile(video_file) ==
    IF EndsWith(video_file, DotMp4) THEN video_file ELSE video_file \o DotMp4

\* lines 147-159: the border image of one overlay, dims + 2 * border in each
\* dimension, filled with the border colour
BorderFrame(overlay) ==
    LET border_color == IF "border_color" \in DOMAIN overlay
                        THEN overlay.border_color
                        ELSE DefaultBorderColor
        border_image == [y \in 1..(overlay.dims[2] + overlay.border * 2) |->
                            [x \in 1..(overlay.dims[1] + overlay.border * 2) |->
                                np_uint8(border_color)]]
    IN  observation_to_image(border_image, "color", DefaultDepthClip)

\* line 163: the conversion of the primary observation
PrimaryImage(ob) ==
    observation_to_image(ob[args.primary_obs], args.primary_obs_type,
                         DefaultDepthClip)

\* lines 171-173: the conversion of an overlay's observation
OverlayImage(ob, overlay) ==
    observation_to_image(ob[overlay.obs], overlay.type, args.depth_clip)

\* PasteOverlay with the border image pasted at pos
PasteOverlay_noshift(frame, overlay_rgb_img, border_frame, overlay) ==
    Image_paste(
        Image_paste(frame, border_frame, overlay.pos),
        Image_resize(overlay_rgb_img, overlay.dims),
        overlay.pos)

\* lines 181-189: the border image pasted at pos - border, then the resized
\* overlay image pasted at pos
PasteOverlay(frame, overlay_rgb_img, border_frame, overlay) ==
    Image_paste(
        Image_paste(frame, border_frame,
                    <<overlay.pos[1] - overlay.border,
                      overlay.pos[2] - overlay.border>>),
        Image_resize(overlay_rgb_img, overlay.dims),
        overlay.pos)

\* lines 191-192: the resize to video_dims, if given
FinalFrame(frame) ==
    IF IsNone(args.video_dims) THEN frame
    ELSE Image_resize(frame, args.video_dims.some)

\* the overlays of the call: overlay_settings, or none when it is None
Overlays == IF IsNone(args.overlay_settings) THEN <<>>
            ELSE args.overlay_settings.some

\* lines 163-195 as a function: the frame composed from one observation when
\* every conversion succeeds, overlays 1..n pasted in order
RECURSIVE ComposeOverlays(_, _, _)
ComposeOverlays(frame, ob, n) ==
    IF n = 0 THEN frame
    ELSE PasteOverlay(ComposeOverlays(frame, ob, n - 1),
                      OverlayImage(ob, Overlays[n]),
                      BorderFrame(Overlays[n]), Overlays[n])

ComposedFrame(ob) ==
    np_array(FinalFrame(ComposeOverlays(PrimaryImage(ob), ob, Len(Overlays))))

\* lines 136-141: observations[0] (IndexError on an empty list), the file
\* name, and the encoder opened
make_video_open ==
    /\ pc = "make_video"
    /\ IF args.observations = <<>>
       THEN /\ pc' = "raised"
            /\ UNCHANGED writer
       ELSE /\ writer' = get_fast_video_writer(
                            NormalizedVideoFile(args.video_file), args.fps,
                            sys_modules, environ)
            /\ pc' = "borders"
    /\ UNCHANGED <<args, sys_modules, environ, border_frames, ob_ix, ov_ix,
                   image_frame, calls, displayed, result>>

\* lines 144-159: the border frames, once per overlay, before the frame loop
make_video_borders ==
    /\ pc = "borders"
    /\ border_frames' = [ix \in 1..Len(Overlays) |-> BorderFrame(Overlays[ix])]
    /\ ob_ix' = 1
    /\ pc' = "primary"
    /\ UNCHANGED <<args, sys_modules, environ, writer, ov_ix, image_frame,
                   calls, displayed, result>>

\* lines 161-166: the primary image of the next observation; return if it is None
make_video_primary ==
    /\ pc = "primary"
    /\ calls' = Append(calls, <<ob_ix, 0>>)
    /\ LET image == PrimaryImage(args.observations[ob_ix])
       IN  IF IsNone(image)
           THEN /\ pc' = "aborted"
                /\ UNCHANGED <<image_frame, ov_ix>>
           ELSE /\ image_frame' = image
                /\ ov_ix' = 1
                /\ pc' = IF Len(Overlays) = 0 THEN "append" ELSE "overlay"
    /\ UNCHANGED <<args, sys_modules, environ, writer, border_frames, ob_ix,
                   displayed, result>>

\* make_video_overlay skipping an overlay whose image is None instead of
\* returning
make_video_overlay_skip ==
    /\ pc = "overlay"
    /\ calls' = Append(calls, <<ob_ix, ov_ix>>)
    /\ LET overlay == Overlays[ov_ix]
           overlay_rgb_img == OverlayImage(args.observations[ob_ix], overlay)
       IN  /\ image_frame' = IF IsNone(overlay_rgb_img) THEN image_frame
                             ELSE PasteOverlay(image_frame, overlay_rgb_img,
                                               border_frames[ov_ix], overlay)
           /\ ov_ix' = ov_ix + 1
           /\ pc' = IF ov_ix = Len(Overlays) THEN "append" ELSE "overlay"
    /\ UNCHANGED <<args, sys_modules, environ, writer, border_frames, ob_ix,
                   displayed, result>>

\* lines 170-189: one overlay converted, resized and pasted; return if its
\* image is None
make_video_overlay ==
    /\ pc = "overlay"
    /\ calls' = Append(calls, <<ob_ix, ov_ix>>)
    /\ LET overlay == Overlays[ov_ix]
           overlay_rgb_img == OverlayImage(args.observations[ob_ix], overlay)
       IN  IF IsNone(overlay_rgb_img)
           THEN /\ pc' = "aborted"
                /\ UNCHANGED <<image_frame, ov_ix>>
           ELSE /\ image_frame' = PasteOverlay(image_frame, overlay_rgb_img,
                                               border_frames[ov_ix], overlay)
                /\ ov_ix' = ov_ix + 1
                /\ pc' = IF ov_ix = Len(Overlays) THEN "append" ELSE "overlay"
    /\ UNCHANGED <<args, sys_modules, environ, writer, border_frames, ob_ix,
                   displayed, result>>

\* lines 191-195: the frame resized and appended; on to the next observation
make_video_append ==
    /\ pc = "append"
    /\ writer' = append_data(writer, np_array(FinalFrame(image_frame)))
    /\ IF ob_ix < Len(args.observations)
       THEN /\ ob_ix' = ob_ix + 1
            /\ pc' = "primary"
       ELSE /\ pc' = "close"
            /\ UNCHANGED ob_ix
    /\ UNCHANGED <<args, sys_modules, environ, border_frames, ov_ix,
                   image_frame, calls, displayed, result>>

\* line 197
make_video_close ==
    /\ pc = "close"
    /\ writer' = close(writer)
    /\ pc' = "display"
    /\ UNCHANGED <<args, sys_modules, environ, border_frames, ob_ix, ov_ix,
                   image_frame, calls, displayed, result>>

\* make_video_display ignoring open_vid
make_video_display_always ==
    /\ pc = "display"
    /\ \E notebook \in BOOLEAN, platform \in {"win32", "darwin", "linux"} :
          displayed' = Append(displayed, display_video(notebook, platform))
    /\ pc' = "returned"
    /\ UNCHANGED <<args, sys_modules, environ, writer, border_frames, ob_ix,
                   ov_ix, image_frame, calls, result>>

\* lines 198-199: display_video if open_vid; the notebook probe and the
\* platform are read from the process at that moment
make_video_display ==
    /\ pc = "display"
    /\ \/ /\ args.open_vid
          /\ \E notebook \in BOOLEAN, platform \in {"win32", "darwin", "linux"} :
                displayed' = Append(displayed, display_video(notebook, platform))
       \/ /\ ~args.open_vid
          /\ UNCHANGED displayed
    /\ pc' = "returned"
    /\ UNCHANGED <<args, sys_modules, environ, writer, border_frames, ob_ix,
                   ov_ix, image_frame, calls, result>>

-----------------------------------------------------------------------------
(* The calls of make_video that are explored *)

\* the observation dictionary of frame k: every frame differs from the others
Observation(k, w, h) ==
    [color_sensor    |-> [y \in 1..h |-> [x \in 1..w |-> (40 * k + 7 * y + 3 * x) % 256]],
     depth_sensor    |-> [y \in 1..h |-> [x \in 1..w |-> ((x + 2 * y + k) % 14) - 1]],
     semantic_sensor |-> [y \in 1..h |-> [x \in 1..w |-> 35 + x * y + k]]]

\* observation lists of every length up to MaxObs, the empty one included
ObservationLists(w, h) ==
    {[k \in 1..n |-> Observation(k, w, h)] : n \in 0..MaxObs}

\* the primary sensor and the type tag given for it
Primaries ==
    {[obs |-> "color_sensor", type |-> "color"],
     [obs |-> "depth_sensor", type |-> "depth"],
     [obs |-> "semantic_sensor", type |-> "semantic"],
     [obs |-> "depth_sensor", type |-> "color"],
     [obs |-> "color_sensor", type |-> "normals"]}

DepthOverlay ==
    [type |-> "depth", dims |-> <<2, 2>>, pos |-> <<2, 1>>, border |-> 1,
     obs |-> "depth_sensor"]

SemanticOverlay ==
    [type |-> "semantic", dims |-> <<1, 2>>, pos |-> <<4, 3>>, border |-> 0,
     border_color |-> 300, obs |-> "semantic_sensor"]

ColorOverlay ==
    [type |-> "color", dims |-> <<3, 1>>, pos |-> <<0, 3>>, border |-> 1,
     border_color |-> 20, obs |-> "color_sensor"]

BadOverlay ==
    [type |-> "rgb", dims |-> <<2, 2>>, pos |-> <<1, 1>>, border |-> 1,
     obs |-> "color_sensor"]

OverlaySettings ==
    {NoneVal, Some(<<>>), Some(<<DepthOverlay>>),
     Some(<<DepthOverlay, SemanticOverlay>>), Some(<<ColorOverlay>>),
     Some(<<DepthOverlay, BadOverlay>>), Some(<<BadOverlay, DepthOverlay>>)}

\* the process state a call finds: the hosted-notebook module and os.environ
Processes ==
    {[colab |-> FALSE, environ |-> [PATH |-> "/usr/bin"]],
     [colab |-> TRUE,
      environ |-> [PATH |-> "/usr/bin", IMAGEIO_FFMPEG_EXE |-> FfmpegExe]]}

MakeVideoArgs(observations, primary, overlay_settings, open_vid, video_dims, depth_clip, video_file) ==
    [fn |-> "make_video", observations |-> observations,
     primary_obs |-> primary.obs, primary_obs_type |-> primary.type,
     video_file |-> video_file, fps |-> DefaultFps, open_vid |-> open_vid,
     video_dims |-> video_dims, overlay_settings |-> overlay_settings,
     depth_clip |-> depth_clip]

\* the variables before a call with arguments a in process p
Fresh(a, p) ==
    /\ args = a
    /\ sys_modules = p.colab
    /\ environ = p.environ
    /\ writer = NoneVal
    /\ border_frames = <<>>
    /\ ob_ix = 0
    /\ ov_ix = 0
    /\ image_frame = NoneVal
    /\ calls = <<>>
    /\ displayed = <<>>
    /\ result = NoneVal

\* the state at the entry of a call with arguments a in process p
Entry(a, p) == pc = a.fn /\ Fresh(a, p)

Init ==
    \E observations \in ObservationLists(SmallW, SmallH),
       primary \in Primaries,
       overlay_settings \in OverlaySettings,
       open_vid \in BOOLEAN,
       video_dims \in {NoneVal, Some(<<3, 2>>)},
       depth_clip \in {DefaultDepthClip, 5},
       video_file \in {<<"v">>, <<"v", ".", "m", "p", "4">>},
       p \in Processes :
        Entry(MakeVideoArgs(observations, primary, overlay_settings, open_vid,
                            video_dims, depth_clip, video_file), p)

Next ==
    \/ make_video_open
    \/ make_video_borders
    \/ make_video_primary
    \/ make_video_overlay
    \/ make_video_append
    \/ make_video_close
    \/ make_video_display

Spec == Init /\ [][Next]_vars

-----------------------------------------------------------------------------
(* Properties of make_video *)

\* the type tags observation_to_image supports
SupportedTypes == {"color", "depth", "semantic"}

\* the call has ended: by the final return, an early return or an exception
Ended == pc \in {"returned", "aborted", "raised"}

\* the type tag given to the conversion call c = <<frame, overlay>>
CallType(c) ==
    IF c[2] = 0 THEN args.primary_obs_type ELSE Overlays[c[2]].type

\* C1: every execution of make_video that opened the encoder ends with the
\* encoder closed exactly once, on the normal path and on both early returns.
C1_EncoderClosedOnEveryExit ==
    (Ended /\ ~IsNone(writer)) => (writer.state = "closed" /\ writer.closes = 1)

\* C2: a conversion that fails (unsupported type tag) for the primary image or
\* an overlay of frame k is the last conversion of the build: the build has
\* returned, no later overlay or frame was converted, frame k was not
\* appended, and the frames appended are those of observations 1..k-1 in order.
C2_FailedConversionStopsBuild ==
    \A n \in 1..Len(calls) :
        CallType(calls[n]) \notin SupportedTypes =>
            /\ n = Len(calls)
            /\ pc = "aborted"
            /\ Len(writer.frames) = calls[n][1] - 1
            /\ \A i \in 1..Len(writer.frames) :
                  writer.frames[i] = ComposedFrame(args.observations[i])
            /\ \A m \in 1..(n - 1) :
                  /\ calls[m][1] <= calls[n][1]
                  /\ calls[m][1] = calls[n][1] => calls[m][2] < calls[n][2]

\* the second overlay of the first frame failed after the first was pasted
C2_Witness ==
    /\ pc = "aborted"
    /\ calls = <<<<1, 0>>, <<1, 1>>, <<1, 2>>>>
    /\ CallType(<<1, 2>>) \notin SupportedTypes
    /\ Len(args.observations) >= 2
    /\ writer.frames = <<>>

\* C3: the encoder receives the composed frames of the observations in input
\* order, one per observation: at every moment the appended frames are those
\* of the first observations, and once the loop has ended there are
\* len(observations) of them.
C3_OneFramePerObservationInOrder ==
    ~IsNone(writer) =>
        /\ Len(writer.frames) <= Len(args.observations)
        /\ \A i \in 1..Len(writer.frames) :
              writer.frames[i] = ComposedFrame(args.observations[i])
        /\ pc \in {"close", "display", "returned"} =>
              Len(writer.frames) = Len(args.observations)

\* a finished build of at least two frames with two overlays each
C3_Witness ==
    /\ pc = "returned"
    /\ Len(args.observations) >= 2
    /\ Len(Overlays) = 2
    /\ Len(writer.frames) = Len(args.observations)
    /\ writer.frames[1] # writer.frames[2]

\* C4: a primary observation of type "depth" is normalised with the depth_clip
\* given to make_video: right after the primary conversion the frame is
\* depth_to_rgb of the observation with clip_max = depth_clip.
C4_PrimaryDepthUsesDepthClip ==
    (/\ pc \in {"overlay", "append"}
     /\ ov_ix = 1
     /\ args.primary_obs_type = "depth")
        => image_frame.px = depth_to_rgb(args.observations[ob_ix][args.primary_obs],
                                         args.depth_clip)

\* C10, the states: display_video is called at most once and only with the
\* encoder closed; at the end of the call it has been called iff open_vid was
\* given and every observation's frame was appended (never on an aborted build).
C10_DisplayOnlyAfterClose ==
    /\ Len(displayed) <= 1
    /\ displayed # <<>> => (~IsNone(writer) /\ writer.state = "closed")
    /\ Ended =>
          (displayed # <<>> <=>
              /\ args.open_vid
              /\ pc = "returned"
              /\ Len(writer.frames) = Len(args.observations))

\* C10, the steps: no frame is appended once the encoder is closed.
C10_NoAppendAfterClose ==
    (~IsNone(writer) /\ writer.state = "closed") => writer'.frames = writer.frames

\* C10: the display routine runs only after the encoder is closed, iff open_vid
\* was requested and every frame was appended, and nothing is appended to a
\* closed encoder.
C10_DisplayAfterCloseIffRequested ==
    [](C10_DisplayOnlyAfterClose) /\ [][C10_NoAppendAfterClose]_vars

\* a finished build that displayed its video
C10_Witness ==
    /\ pc = "returned"
    /\ args.open_vid
    /\ displayed # <<>>
    /\ writer.state = "closed"
    /\ Len(writer.frames) >= 2

-----------------------------------------------------------------------------
(* Overlay compositing on a 100 x 100 primary image *)

\* the case of the compositing example: the image size and the overlay spec
OverlayCase ==
    [w |-> 100, h |-> 100, dims |-> <<20, 20>>, pos |-> <<10, 10>>, border |-> 2]

CaseOverlays ==
    {[type |-> t, dims |-> OverlayCase.dims, pos |-> OverlayCase.pos,
      border |-> OverlayCase.border, obs |-> o] :
        t \in {"depth", "rgb"}, o \in {"depth_sensor"}}
    \cup
    {[type |-> "semantic", dims |-> OverlayCase.dims, pos |-> OverlayCase.pos,
      border |-> OverlayCase.border, border_color |-> 20,
      obs |-> "semantic_sensor"]}

InitOverlay ==
    \E observations \in ObservationLists(OverlayCase.w, OverlayCase.h),
       primary \in Primaries,
       overlay \in CaseOverlays,
       open_vid \in BOOLEAN :
        Entry(MakeVideoArgs(observations, primary, Some(<<overlay>>), open_vid,
                            NoneVal, DefaultDepthClip, <<"v">>),
              [colab |-> FALSE, environ |-> [PATH |-> "/usr/bin"]])

SpecOverlay == InitOverlay /\ [][Next]_vars

\* the call is the compositing example: a 100 x 100 primary image, one overlay
\* with dims (20, 20), pos (10, 10), border 2, and no video_dims
IsOverlayCase ==
    /\ args.fn = "make_video"
    /\ IsNone(args.video_dims)
    /\ Len(Overlays) = 1
    /\ Overlays[1].dims = <<20, 20>>
    /\ Overlays[1].pos = <<10, 10>>
    /\ Overlays[1].border = 2
    /\ \A i \in 1..Len(args.observations) :
          LET buf == args.observations[i][args.primary_obs]
          IN  Len(buf) = 100 /\ \A y \in 1..100 : Len(buf[y]) = 100

\* frame i shows the resized overlay on pixels (10,10) up to but excluding
\* (30,30), the border colour on the rest of the rectangle from (8,8) up to
\* but excluding (hi,hi), and the primary image everywhere else
FrameLayout(i, hi) ==
    LET ob == args.observations[i]
        overlay == Overlays[1]
        primary == PrimaryImage(ob)
        inset == Image_resize(OverlayImage(ob, overlay), <<20, 20>>)
        color == np_uint8(IF "border_color" \in DOMAIN overlay
                          THEN overlay.border_color ELSE DefaultBorderColor)
    IN  \A x \in 0..99, y \in 0..99 :
            writer.frames[i][y + 1][x + 1] =
                IF 10 <= x /\ x < 30 /\ 10 <= y /\ y < 30
                THEN inset.px[y - 10 + 1][x - 10 + 1]
                ELSE IF 8 <= x /\ x < hi /\ 8 <= y /\ y < hi
                THEN color
                ELSE primary.px[y + 1][x + 1]

\* C5 as stated: in every appended frame of the example the bordered rectangle
\* spans (8,8) up to but excluding (30,30), the overlay (10,10) up to but
\* excluding (30,30), and every pixel outside the rectangle is the primary's.
C5_BorderRectangleTo30 ==
    (IsOverlayCase /\ ~IsNone(writer)) =>
        \A i \in 1..Len(writer.frames) : FrameLayout(i, 30)

\* C5 amended: the bordered rectangle, of dims + 2 * border = 24 pixels a side,
\* spans (8,8) up to but excluding (32,32); the overlay spans (10,10) up to but
\* excluding (30,30); every pixel outside the rectangle is the primary's.
C5_BorderRectangleTo32 ==
    (IsOverlayCase /\ ~IsNone(writer)) =>
        \A i \in 1..Len(writer.frames) : FrameLayout(i, 32)

\* a frame of the example appended, its border, overlay and primary pixels
\* all different at the rectangle's right edge
C5_Witness ==
    /\ IsOverlayCase
    /\ ~IsNone(writer)
    /\ Len(writer.frames) >= 1
    /\ writer.frames[1][10][32] = DefaultBorderColor
    /\ writer.frames[1][10][33] # DefaultBorderColor
    /\ writer.frames[1][11][30] # DefaultBorderColor

-----------------------------------------------------------------------------
(* Calls of the converters *)

\* the samples drawn for a buffer: below zero, up to MaxDepth, and beyond the
\* palette and the 8-bit range
Samples == (-1..MaxDepth) \cup {45, 300}

\* buffers of one row and two samples
Buffers == {<<<<d1, d2>>>> : d1 \in Samples, d2 \in Samples}

TypeTags == {"color", "depth", "semantic", "normals", "rgb", ""}

\* a call without process state of interest
NoProcess == [colab |-> FALSE, environ |-> [PATH |-> "/usr/bin"]]

InitImage ==
    \/ \E buf \in Buffers, clip \in 1..MaxDepth :
          Entry([fn |-> "depth_to_rgb", depth_image |-> buf, clip_max |-> clip],
                NoProcess)
    \/ \E buf \in Buffers, tag \in TypeTags, clip \in {DefaultDepthClip, 5} :
          Entry([fn |-> "observation_to_image", observation_image |-> buf,
                 observation_type |-> tag, depth_clip |-> clip], NoProcess)

\* a call of depth_to_rgb, lines 202-213
call_depth_to_rgb ==
    /\ pc = "depth_to_rgb"
    /\ result' = depth_to_rgb(args.depth_image, args.clip_max)
    /\ pc' = "returned"
    /\ UNCHANGED <<args, sys_modules, environ, writer, border_frames, ob_ix,
                   ov_ix, image_frame, calls, displayed>>

\* a call of observation_to_image, lines 232-259
call_observation_to_image ==
    /\ pc = "observation_to_image"
    /\ result' = observation_to_image(args.observation_image,
                                      args.observation_type, args.depth_clip)
    /\ pc' = "returned"
    /\ UNCHANGED <<args, sys_modules, environ, writer, border_frames, ob_ix,
                   ov_ix, image_frame, calls, displayed>>

NextImage ==
    \/ call_depth_to_rgb
    \/ call_observation_to_image

SpecImage == InitImage /\ [][NextImage]_vars

\* C6: observation_to_image returns None, without raising, for every type tag
\* outside {color, depth, semantic}, and an image for every tag inside it.
C6_NoneIffUnsupportedType ==
    (args.fn = "observation_to_image" /\ pc # "observation_to_image") =>
        /\ pc = "returned"
        /\ IsNone(result) <=> args.observation_type \notin SupportedTypes
        /\ args.observation_type \in SupportedTypes =>
              /\ result.w = 2 /\ result.h = 1
              /\ \A x \in 1..2 : result.px[1][x] \in 0..255

\* an unsupported tag answered with None
C6_Witness ==
    /\ args.fn = "observation_to_image"
    /\ pc = "returned"
    /\ args.observation_type = "normals"
    /\ IsNone(result)

\* the two samples of the call's buffer and of the result of depth_to_rgb
DepthIn(x) == args.depth_image[1][x]
DepthOut(x) == result[1][x]

\* C8: every element of depth_to_rgb's output is in [0,255]; the output is
\* non-decreasing in the input up to clip_max, 255 for every input >= clip_max
\* and 0 for every input <= 0.
C8_DepthRangeMonotoneSaturating ==
    (args.fn = "depth_to_rgb" /\ pc = "returned") =>
        /\ \A x \in 1..2 :
              /\ DepthOut(x) \in 0..255
              /\ DepthIn(x) >= args.clip_max => DepthOut(x) = 255
              /\ DepthIn(x) <= 0 => DepthOut(x) = 0
        /\ \A x1 \in 1..2, x2 \in 1..2 :
              (DepthIn(x1) <= DepthIn(x2) /\ DepthIn(x2) <= args.clip_max)
                  => DepthOut(x1) <= DepthOut(x2)

\* a buffer with a sample inside the clip range and one beyond it
C8_Witness ==
    /\ args.fn = "depth_to_rgb"
    /\ pc = "returned"
    /\ 0 < DepthIn(1) /\ DepthIn(1) < args.clip_max
    /\ DepthIn(2) > args.clip_max
    /\ 0 < DepthOut(1) /\ DepthOut(1) < 255
    /\ DepthOut(2) = 255

\* the clipped sample times 255, the numerator of the scaled value over clip_max
Scaled(x) == np_clip(DepthIn(x), 0, args.clip_max) * 255

\* C9 as stated: every output element is the scaled value
\* min(max(d, 0), clip_max) / clip_max * 255 rounded to the nearest integer.
C9_OutputIsRounded ==
    (args.fn = "depth_to_rgb" /\ pc = "returned") =>
        \A x \in 1..2 :
            /\ 2 * (DepthOut(x) * args.clip_max - Scaled(x)) <= args.clip_max
            /\ 2 * (Scaled(x) - DepthOut(x) * args.clip_max) <= args.clip_max

\* C9 amended: every output element is the scaled value
\* min(max(d, 0), clip_max) / clip_max * 255 truncated to its integer part.
C9_OutputIsTruncated ==
    (args.fn = "depth_to_rgb" /\ pc = "returned") =>
        \A x \in 1..2 :
            /\ DepthOut(x) * args.clip_max <= Scaled(x)
            /\ Scaled(x) < (DepthOut(x) + 1) * args.clip_max

\* a sample whose scaled value has a fraction above one half
C9_Witness ==
    /\ args.fn = "depth_to_rgb"
    /\ pc = "returned"
    /\ 2 * (Scaled(1) - DepthOut(1) * args.clip_max) > args.clip_max

-----------------------------------------------------------------------------
(* Calls of get_fast_video_writer *)

\* file names with and without the extension ".mp4"
VideoFiles ==
    {<<"v", ".", "m", "p", "4">>,
     <<"v", ".", "g", ".", "m", "p", "4">>,
     <<"d", ".", "x", "/", "v", ".", "m", "p", "4">>,
     <<"v">>,
     <<"v", ".", "a", "v", "i">>,
     <<"v", ".", "m", "p", "4", ".", "g">>,
     <<"d", ".", "m", "p", "4", "/", "v">>,
     <<".", "m", "p", "4">>,
     <<"v", "m", "p", "4">>}

\* the values of os.environ explored
Environs ==
    {[PATH |-> "/usr/bin"],
     [PATH |-> "/usr/bin", IMAGEIO_FFMPEG_EXE |-> FfmpegExe],
     [PATH |-> "/usr/bin", IMAGEIO_FFMPEG_EXE |-> "/usr/local/bin/ffmpeg"]}

InitWriter ==
    \E video_file \in VideoFiles, fps \in {DefaultFps, 30},
       colab \in BOOLEAN, env \in Environs :
        /\ pc = "import"
        /\ Fresh([fn |-> "get_fast_video_writer", video_file |-> video_file,
                  fps |-> fps], [colab |-> colab, environ |-> env])

\* lines 7-8, run when the module is imported: in the hosted notebook the
\* encoder path is put into os.environ
module_import ==
    /\ pc = "import"
    /\ environ' = IF sys_modules
                  THEN [PATH |-> environ.PATH, IMAGEIO_FFMPEG_EXE |-> FfmpegExe]
                  ELSE environ
    /\ pc' = "imported"
    /\ UNCHANGED <<args, sys_modules, writer, border_frames, ob_ix, ov_ix,
                   image_frame, calls, displayed, result>>

\* between the import and the call the host program may load google.colab and
\* change os.environ: lines 37 and 39 read the process state of the call
host_program ==
    /\ pc = "imported"
    /\ \E colab \in {sys_modules, TRUE}, env \in Environs \cup {environ} :
          /\ sys_modules' = colab
          /\ environ' = env
    /\ pc' = "get_fast_video_writer"
    /\ UNCHANGED <<args, writer, border_frames, ob_ix, ov_ix, image_frame,
                   calls, displayed, result>>

\* a call of get_fast_video_writer, lines 35-55
call_get_fast_video_writer ==
    /\ pc = "get_fast_video_writer"
    /\ writer' = get_fast_video_writer(args.video_file, args.fps, sys_modules,
                                       environ)
    /\ result' = writer'
    /\ pc' = "returned"
    /\ UNCHANGED <<args, sys_modules, environ, border_frames, ob_ix, ov_ix,
                   image_frame, calls, displayed>>

NextWriter ==
    \/ module_import
    \/ host_program
    \/ call_get_fast_video_writer

SpecWriter == InitWriter /\ [][NextWriter]_vars

\* the file names of VideoFiles whose extension is ".mp4"
Mp4Files ==
    {<<"v", ".", "m", "p", "4">>,
     <<"v", ".", "g", ".", "m", "p", "4">>,
     <<"d", ".", "x", "/", "v", ".", "m", "p", "4">>}

\* C7: get_fast_video_writer selects hardware encoding iff google.colab is
\* loaded, the file's extension is .mp4 and IMAGEIO_FFMPEG_EXE is
\* /usr/bin/ffmpeg; otherwise, and always without google.colab, it selects
\* software encoding.
C7_HardwareIffColabMp4Ffmpeg ==
    (args.fn = "get_fast_video_writer" /\ pc = "returned") =>
        /\ writer.state = "open"
        /\ writer.codec \in {"h264_nvenc", "default"}
        /\ writer.codec = "h264_nvenc" <=>
              /\ sys_modules
              /\ args.video_file \in Mp4Files
              /\ "IMAGEIO_FFMPEG_EXE" \in DOMAIN environ
              /\ environ.IMAGEIO_FFMPEG_EXE = "/usr/bin/ffmpeg"
        /\ ~sys_modules => writer.codec = "default"

\* software encoding chosen in the hosted notebook for an .mp4 file, because
\* the environment variable names another encoder
C7_Witness ==
    /\ args.fn = "get_fast_video_writer"
    /\ pc = "returned"
    /\ sys_modules
    /\ args.video_file = <<"v", ".", "m", "p", "4">>
    /\ "IMAGEIO_FFMPEG_EXE" \in DOMAIN environ
    /\ environ.IMAGEIO_FFMPEG_EXE # FfmpegExe
    /\ writer.codec = "default"


=============================================================================
